---------------------------- MODULE Spec2Model ----------------------------
(***************************************************************************)
(* A model of jni/venus/Makeup.cpp (PerfectShow): the overlay packer, the  *)
(* blush polygons, the two blend operations, the eye-shadow merge and the  *)
(* apply<Feature> entry points.                                            *)
(*                                                                         *)
(* Images are cv::Mat values: rows, cols, a type tag and the pixels.  The  *)
(* pixels are kept as a uniform fill plus the pixels set explicitly, so    *)
(* that a 256x256 image is as cheap as a 2x2 one; At(img, r, c) is         *)
(* img.at<>(r, c).  A pixel is the tuple of its channel bytes in memory    *)
(* order.  A 32-bit color is the record [a, rgb] of its top byte and its   *)
(* low 24 bits (0xAARRGGBB = a * 2^24 + rgb).                              *)
(***************************************************************************)
EXTENDS Integers, Sequences, FiniteSets, TLC

VARIABLES
    pc,                 \* "ready" before the call, then "done" or "aborted"
    USE_BGRA_LAYOUT,    \* the build's channel-order flag
    mask, color, image, \* Makeup::pack arguments and returned image
    dst, src, origin, amount, result, \* Makeup::blend arguments and result
    touched,            \* [reads, writes]: src and result coordinates blend used
    bitmap,             \* Makeup::createEyeShadow returned image
    points, shape, polygon, \* Makeup::createPolygon arguments, polygon per side
    cosmetic, offsetY,  \* Makeup::applyEye texture, Makeup::applyBrow offsetY
    blends,             \* how many times the entry point called blend
    op                  \* the operation that ran

\* what the caller passes in
inputs ==
    <<USE_BGRA_LAYOUT, mask, color, dst, src, origin, amount, points, shape,
      cosmetic, offsetY>>
\* what the operations return
outputs == <<image, result, touched, bitmap, polygon, blends>>

vars == <<pc, op, inputs, outputs>>

None == "none"

(***************************************************************************)
(* Bounds                                                                  *)
(***************************************************************************)
\* longest mask row handed to pack
MaxLen == 2
\* blend amounts are the fractions n / AmountDen
AmountDen == 2

(***************************************************************************)
(* cv::Mat                                                                 *)
(***************************************************************************)
CV_8UC1  == "CV_8UC1"
CV_8UC3  == "CV_8UC3"
CV_8UC4  == "CV_8UC4"
CV_32FC3 == "CV_32FC3"
CV_32FC4 == "CV_32FC4"
CV_16UC4 == "CV_16UC4"

Mat(rows, cols, type, fill, px) ==
    [rows |-> rows, cols |-> cols, type |-> type, fill |-> fill, px |-> px]

Coords(img) == (0 .. img.rows - 1) \X (0 .. img.cols - 1)

At(img, r, c) ==
    IF <<r, c>> \in DOMAIN img.px THEN img.px[<<r, c>>] ELSE img.fill

\* the explicitly stored coordinates of two images
Stored(a, b) == DOMAIN a.px \cup DOMAIN b.px

\* a == b as images: same header and the same pixel at every coordinate
SameMat(a, b) ==
    /\ a.rows = b.rows /\ a.cols = b.cols /\ a.type = b.type
    /\ \A p \in Stored(a, b) : At(a, p[1], p[2]) = At(b, p[1], p[2])
    /\ a.fill = b.fill \/ Coords(a) \subseteq Stored(a, b)

\* cv::Mat(): no pixels
EmptyMat == Mat(0, 0, CV_8UC1, <<0>>, [p \in {} |-> <<0>>])

\* a row image 1 x Len(row) holding the given pixels
RowMat(type, row) ==
    Mat(1, Len(row), type, row[1],
        [p \in {<<0, i - 1>> : i \in 1 .. Len(row)} |-> row[p[2] + 1]])

(***************************************************************************)
(* Makeup::pack                                                            *)
(***************************************************************************)
Color(a, rgb) == [a |-> a, rgb |-> rgb]

\* the bytes of a uint32_t in memory (little endian): a cv::Vec4b
WordBytes(w) ==
    <<w.rgb % 256, (w.rgb \div 256) % 256, (w.rgb \div 65536) % 256, w.a>>

\* uint8_t alpha = ((color >> 24) * mask_data[i] + 127) / 255, truncated
PackAlphaNoRound(c, m) == ((c.a * m) \div 255) % 256
PackAlpha(c, m) == ((c.a * m + 127) \div 255) % 256

\* image_data[i] under either layout
PackWord(c, m) ==
    IF USE_BGRA_LAYOUT
    THEN Color(PackAlpha(c, m),
               ((c.rgb \div 65536) % 256)
               + ((c.rgb \div 256) % 256) * 256
               + (c.rgb % 256) * 65536)
    ELSE Color(PackAlpha(c, m), c.rgb % 16777216)

Pack(m, c) ==
    Mat(m.rows, m.cols, CV_8UC4,
        WordBytes(PackWord(c, m.fill[1])),
        [p \in DOMAIN m.px |-> WordBytes(PackWord(c, m.px[p][1]))])

(***************************************************************************)
(* venus::mix (venus/blend.h): the componentwise linear interpolation      *)
(* dst + (src - dst) * amount, amount = n / AmountDen.  An 8-bit channel   *)
(* is rounded to nearest and saturated; a float channel v is kept as the   *)
(* exact numerator v * AmountDen.                                          *)
(***************************************************************************)
IsFloat(type) == type \in {CV_32FC3, CV_32FC4}

Saturate(v) == IF v < 0 THEN 0 ELSE IF v > 255 THEN 255 ELSE v

MixChannel(type, d, s, n) ==
    IF IsFloat(type)
    THEN (d * (AmountDen - n) + s * n) \div AmountDen
    ELSE Saturate((d * (AmountDen - n) + s * n + AmountDen \div 2)
                      \div AmountDen)

Mix(type, d, s, n) == [i \in DOMAIN d |-> MixChannel(type, d[i], s[i], n)]

(***************************************************************************)
(* cv::Rect and the intersection rect_dst & rect_src                       *)
(***************************************************************************)
Rect(x, y, w, h) == [x |-> x, y |-> y, width |-> w, height |-> h]

Max(a, b) == IF a > b THEN a ELSE b
Min(a, b) == IF a < b THEN a ELSE b

RectAnd(a, b) ==
    LET x1 == Max(a.x, b.x)
        y1 == Max(a.y, b.y)
        w  == Min(a.x + a.width, b.x + b.width) - x1
        h  == Min(a.y + a.height, b.y + b.height) - y1
    IN  IF w <= 0 \/ h <= 0 THEN Rect(0, 0, 0, 0) ELSE Rect(x1, y1, w, h)

\* the (r, c) the two nested loops visit
RectCoords(rect) ==
    (rect.y .. rect.y + rect.height - 1) \X (rect.x .. rect.x + rect.width - 1)

BlendRectNoClip(d, s, o) == Rect(o.x, o.y, s.cols, s.rows)

\* rect = rect_dst & rect_src of either blend
BlendRect(d, s, o) ==
    RectAnd(Rect(0, 0, d.cols, d.rows), Rect(o.x, o.y, s.cols, s.rows))

BlendedNoOrigin(base, s, o, n, W) ==
    Mat(base.rows, base.cols, base.type, base.fill,
        [p \in DOMAIN base.px \cup W |->
            IF p \in W
            THEN Mix(base.type, At(base, p[1], p[2]), At(s, p[1], p[2]), n)
            ELSE base.px[p]])

\* result after the loop body ran at the coordinates W
Blended(base, s, o, n, W) ==
    Mat(base.rows, base.cols, base.type, base.fill,
        [p \in DOMAIN base.px \cup W |->
            IF p \in W
            THEN Mix(base.type, At(base, p[1], p[2]),
                     At(s, p[1] - o.y, p[2] - o.x), n)
            ELSE base.px[p]])

Touched(o, W) ==
    [reads |-> {<<p[1] - o.y, p[2] - o.x>> : p \in W}, writes |-> W]

(***************************************************************************)
(* Makeup::blend(result, dst, src, origin, amount)                         *)
(* The outcome is [pc, result, touched].  The switch of the rectangular    *)
(* blend has the cases CV_8UC4 and CV_32FC4 (the 3-channel cases are under *)
(* #if 0).  src.at<Vec4b> on a src of another element type than dst reads  *)
(* bytes that are not src's pixels: the outcome is "undefined".            *)
(***************************************************************************)
RectCases == {CV_8UC4, CV_32FC4}

Outcome(p, r, t) == [pc |-> p, result |-> r, touched |-> t]

BlendRectangular(res, d, s, o, n) ==
    IF s.rows = 0 \/ s.cols = 0 \/ s.type \notin {CV_8UC4, CV_32FC4}
    THEN Outcome("aborted", res, Touched(o, {}))
    ELSE LET W == RectCoords(BlendRect(d, s, o))
         IN  IF d.type \notin RectCases
             THEN Outcome("aborted", d, Touched(o, {}))
             ELSE IF s.type # d.type /\ W # {}
             THEN Outcome("undefined", None, Touched(o, W))
             ELSE Outcome("done", Blended(d, s, o, n, W), Touched(o, W))

(***************************************************************************)
(* Makeup::blend(result, dst, src, mask, origin, amount)                   *)
(***************************************************************************)
MaskedCasesWith8UC3 == {CV_8UC3, CV_8UC4, CV_32FC3, CV_32FC4}

\* the cases of the switch at line 289
MaskedCases == {CV_8UC4, CV_32FC3, CV_32FC4}

\* C++ integer division truncates toward zero
CDiv(a, b) == IF a >= 0 THEN a \div b ELSE -((-a) \div b)

MaskOffsetNotCentred(s, m) == [x |-> 0, y |-> 0]

\* offset_x, offset_y
MaskOffset(s, m) ==
    [x |-> CDiv(s.cols - m.cols, 2), y |-> CDiv(s.rows - m.rows, 2)]

\* mask_position of the destination pixel (r, c), as <<row, column>>
MaskPosition(s, m, o, r, c) ==
    <<(r - o.y) - MaskOffset(s, m).y, (c - o.x) - MaskOffset(s, m).x>>

\* the pixels that pass the gate of line 286
Gated(d, s, m, o) ==
    {p \in RectCoords(BlendRect(d, s, o)) :
        LET q == MaskPosition(s, m, o, p[1], p[2])
        IN  /\ q \in Coords(m)
            /\ At(m, q[1], q[2])[1] # 0}

BlendMasked(res, d, s, m, o, n) ==
    IF s.type # d.type \/ m.type # CV_8UC1
    THEN Outcome("aborted", res, Touched(o, {}))
    ELSE LET W == Gated(d, s, m, o)
         IN  IF W # {} /\ d.type \notin MaskedCases
             THEN Outcome("aborted", d, Touched(o, {}))
             ELSE Outcome("done", Blended(d, s, o, n, W), Touched(o, W))

(***************************************************************************)
(* Specification of pack: the inputs are drawn, then pack runs once.       *)
(***************************************************************************)
MaskValues == {0, 1, 127, 128, 255}

RECURSIVE Rows(_, _)
Rows(S, n) ==
    IF n = 0 THEN {<<>>}
    ELSE {Append(s, <<v>>) : s \in Rows(S, n - 1), v \in S}

PackMasks ==
    {RowMat(CV_8UC1, row) :
        row \in UNION {Rows(MaskValues, n) : n \in 1 .. MaxLen}}
    \cup {RowMat(CV_8UC4, <<<<0, 0, 0, 255>>>>)}

\* 0x80112233, 0xFF0000FF, 0x00FFFFFF, 0x01010203, 0xFFFFFFFF, 0x7F804020
PackColors ==
    {Color(128, 1122867), Color(255, 255), Color(0, 16777215),
     Color(1, 66051), Color(255, 16777215), Color(127, 8405024)}

InitPack ==
    /\ pc = "ready"
    /\ USE_BGRA_LAYOUT \in BOOLEAN
    /\ mask \in PackMasks
    /\ color \in PackColors
    /\ image = None
    /\ dst = None /\ src = None /\ origin = None /\ amount = None
    /\ result = None /\ touched = None /\ op = None
    /\ bitmap = None /\ points = None /\ shape = None /\ polygon = None
    /\ cosmetic = None /\ offsetY = None /\ blends = None

DoPack ==
    /\ pc = "ready"
    /\ IF mask.type # CV_8UC1          \* assert(mask.type() == CV_8UC1)
       THEN pc' = "aborted" /\ image' = image
       ELSE pc' = "done" /\ image' = Pack(mask, color)
    /\ op' = "pack"
    /\ UNCHANGED <<inputs, result, touched, bitmap, polygon, blends>>

(***************************************************************************)
(* C1 (as stated): pack returns an image of the mask's size whose pixel i  *)
(* has alpha byte floor((A * mask[i] + 127) / 255) and the color's low 24  *)
(* bits unchanged.                                                         *)
(***************************************************************************)
C1_PackAsStated ==
    (op = "pack" /\ pc = "done") =>
        /\ image.rows = mask.rows /\ image.cols = mask.cols
        /\ \A p \in Coords(mask) :
              At(image, p[1], p[2]) =
                  <<color.rgb % 256, (color.rgb \div 256) % 256,
                    color.rgb \div 65536,
                    (color.a * At(mask, p[1], p[2])[1] + 127) \div 255>>

Uniform(m, v) == \A p \in Coords(m) : At(m, p[1], p[2]) = <<v>>

(***************************************************************************)
(* C1 (amended): the size and the alpha byte are as stated under either    *)
(* layout; the low 24 bits are the color's unchanged in the RGBA build     *)
(* (USE_BGRA_LAYOUT off), and have the low and the third byte exchanged in *)
(* the BGRA build.  In the RGBA build 0x80112233 with a uniform mask 255   *)
(* packs to 0x80112233 everywhere and with a uniform mask 128 to alpha 64. *)
(***************************************************************************)
C1_Pack ==
    (op = "pack" /\ pc = "done") =>
        /\ image.rows = mask.rows /\ image.cols = mask.cols
        /\ image.type = CV_8UC4
        /\ \A p \in Coords(mask) :
              LET out == At(image, p[1], p[2])
                  m   == At(mask, p[1], p[2])[1]
                  b0  == color.rgb % 256
                  b1  == (color.rgb \div 256) % 256
                  b2  == color.rgb \div 65536
              IN  /\ out[4] = (color.a * m + 127) \div 255
                  /\ out[2] = b1
                  /\ ~USE_BGRA_LAYOUT => out[1] = b0 /\ out[3] = b2
                  /\ USE_BGRA_LAYOUT => out[1] = b2 /\ out[3] = b0
        /\ (~USE_BGRA_LAYOUT /\ color = Color(128, 1122867)) =>
              /\ Uniform(mask, 255) =>
                    \A p \in Coords(mask) :
                        At(image, p[1], p[2]) = <<51, 34, 17, 128>>
              /\ Uniform(mask, 128) =>
                    \A p \in Coords(mask) : At(image, p[1], p[2])[4] = 64

C1_Witness ==
    /\ op = "pack" /\ pc = "done" /\ ~USE_BGRA_LAYOUT
    /\ color = Color(128, 1122867)
    /\ mask.cols = 2 /\ Uniform(mask, 128)
    /\ At(image, 0, 1) = <<51, 34, 17, 64>>

NextPack == DoPack

SpecPack == InitPack /\ [][NextPack]_vars

(***************************************************************************)
(* Specification of the two blends: the arguments are drawn, then one of   *)
(* the two overloads runs once.                                            *)
(***************************************************************************)
Channels(type) ==
    CASE type = CV_8UC1 -> 1
      [] type \in {CV_8UC3, CV_32FC3} -> 3
      [] OTHER -> 4

\* a pixel of the given type with the given channel values
Px(type, v) ==
    [i \in 1 .. Channels(type) |-> IF IsFloat(type) THEN v[i] * AmountDen ELSE v[i]]

\* an image given row by row
GridMat(type, grid) ==
    Mat(Len(grid), Len(grid[1]), type, Px(type, grid[1][1]),
        [p \in (0 .. Len(grid) - 1) \X (0 .. Len(grid[1]) - 1) |->
            Px(type, grid[p[1] + 1][p[2] + 1])])

AllTypes == {CV_8UC1, CV_8UC3, CV_8UC4, CV_32FC3, CV_32FC4, CV_16UC4}

\* <<dst.type(), src.type()>>
TypePairs ==
    {<<t, t>> : t \in AllTypes}
    \cup {<<CV_8UC4, CV_32FC4>>, <<CV_32FC4, CV_8UC4>>,
          <<CV_8UC3, CV_8UC4>>, <<CV_32FC3, CV_32FC4>>}

BlendDst(type) ==
    Mat(2, 3, type, Px(type, <<10, 20, 30, 255>>),
        (<<1, 1>> :> Px(type, <<0, 64, 255, 128>>)))

BlendSrcs(type) ==
    {GridMat(type, <<<< <<200, 100, 50, 0>>, <<201, 101, 51, 255>> >>>>),
     GridMat(type, << << <<200, 100, 50, 0>>, <<201, 101, 51, 255>>,
                         <<202, 102, 52, 128>> >>,
                      << <<203, 103, 53, 64>>, <<204, 104, 54, 1>>,
                         <<205, 105, 55, 254>> >> >>)}

BlendMasks ==
    {GridMat(CV_8UC1, << << <<255>> >> >>),
     GridMat(CV_8UC1, << << <<0>>, <<255>> >> >>),
     GridMat(CV_8UC1, << << <<0>>, <<0>>, <<0>> >>, << <<0>>, <<0>>, <<0>> >> >>),
     GridMat(CV_8UC1, << << <<1>>, <<0>>, <<128>>, <<0>>, <<255>> >> >>),
     GridMat(CV_8UC4, << << <<255, 255, 255, 255>> >> >>)}

Origins == {[x |-> x, y |-> y] : x \in -2 .. 3, y \in -2 .. 2}

InitBlend ==
    /\ pc = "ready"
    /\ USE_BGRA_LAYOUT = FALSE
    /\ \E t \in TypePairs :
          /\ dst = BlendDst(t[1])
          /\ src \in BlendSrcs(t[2])
    /\ mask \in BlendMasks
    /\ origin \in Origins
    /\ amount \in 0 .. AmountDen
    /\ result \in {EmptyMat, dst}  \* result.data != dst.data, or the same
    /\ color = None /\ image = None /\ touched = None /\ op = None
    /\ bitmap = None /\ points = None /\ shape = None /\ polygon = None
    /\ cosmetic = None /\ offsetY = None /\ blends = None

DoBlend ==
    /\ pc = "ready"
    /\ LET out == BlendRectangular(result, dst, src, origin, amount)
       IN  /\ pc' = out.pc
           /\ result' = out.result
           /\ touched' = out.touched
    /\ op' = "blend"
    /\ UNCHANGED <<inputs, image, bitmap, polygon, blends>>

DoBlendMasked ==
    /\ pc = "ready"
    /\ LET out == BlendMasked(result, dst, src, mask, origin, amount)
       IN  /\ pc' = out.pc
           /\ result' = out.result
           /\ touched' = out.touched
    /\ op' = "blendMasked"
    /\ UNCHANGED <<inputs, image, bitmap, polygon, blends>>

NextBlend == DoBlend \/ DoBlendMasked

SpecBlend == InitBlend /\ [][NextBlend]_vars

\* the destination pixels that (origin, src size) covers
Overlap == {p \in Coords(dst) : <<p[1] - origin.y, p[2] - origin.x>> \in Coords(src)}

FullyInside ==
    /\ origin.x >= 0 /\ origin.x + src.cols <= dst.cols
    /\ origin.y >= 0 /\ origin.y + src.rows <= dst.rows

(***************************************************************************)
(* C2: rectangular blend with src fully inside dst: amount 0 gives result  *)
(* equal to dst everywhere, amount 1 gives result equal to src at every    *)
(* pixel of the overlap (all channels); and for every amount and origin    *)
(* each pixel outside the overlap equals the dst pixel.                    *)
(***************************************************************************)
C2_BlendIdentity ==
    (op = "blend" /\ pc = "done") =>
        /\ FullyInside =>
              /\ amount = 0 => SameMat(result, dst)
              /\ amount = AmountDen =>
                    \A p \in Overlap :
                        At(result, p[1], p[2]) =
                            At(src, p[1] - origin.y, p[2] - origin.x)
        /\ result.rows = dst.rows /\ result.cols = dst.cols
        /\ \A p \in Coords(dst) \ Overlap :
              At(result, p[1], p[2]) = At(dst, p[1], p[2])

C2_Witness ==
    /\ op = "blend" /\ pc = "done" /\ FullyInside /\ amount = AmountDen
    /\ origin = [x |-> 1, y |-> 1]
    /\ At(result, 1, 2) = At(src, 0, 1)
    /\ At(result, 1, 2) # At(dst, 1, 2)
    /\ At(result, 0, 0) = At(dst, 0, 0)

(***************************************************************************)
(* C3: rectangular blend with any origin reads src only at coordinates     *)
(* inside src and writes result only inside the intersection of the        *)
(* destination bounds with (origin, src size); when the intersection is    *)
(* empty nothing is written and result equals dst.                         *)
(***************************************************************************)
C3_BlendClipped ==
    (op = "blend" /\ pc = "done") =>
        /\ touched.reads \subseteq Coords(src)
        /\ touched.writes \subseteq Overlap
        /\ Overlap = {} => touched.writes = {} /\ SameMat(result, dst)
        /\ DOMAIN result.px \subseteq Coords(dst)
        /\ \A p \in Coords(dst) \ touched.writes :
              At(result, p[1], p[2]) = At(dst, p[1], p[2])

C3_Witness ==
    /\ op = "blend" /\ pc = "done"
    /\ origin = [x |-> -1, y |-> 1] /\ src.rows = 2 /\ src.cols = 3
    /\ touched.writes = {<<1, 0>>, <<1, 1>>}
    /\ touched.reads = {<<0, 1>>, <<0, 2>>}

C3_WitnessOutside ==
    /\ op = "blend" /\ pc = "done"
    /\ origin = [x |-> 3, y |-> -2]
    /\ touched.writes = {} /\ SameMat(result, dst)

\* (a - b) / 2 as C++ computes it
Half(a) == IF a >= 0 THEN a \div 2 ELSE -((-a) \div 2)

\* <<row, column>> of the mask the destination pixel p maps to
MaskPos(p) ==
    <<p[1] - origin.y - Half(src.rows - mask.rows),
      p[2] - origin.x - Half(src.cols - mask.cols)>>

Passes(p) ==
    /\ p \in Overlap
    /\ MaskPos(p) \in Coords(mask)
    /\ At(mask, MaskPos(p)[1], MaskPos(p)[2]) # <<0>>

(***************************************************************************)
(* C4: masked blend maps the destination pixel (r, c) of the intersection  *)
(* to the mask position (c - origin.x - (src.cols - mask.cols)/2,          *)
(* r - origin.y - (src.rows - mask.rows)/2); the pixels blended are those  *)
(* of the intersection whose mask position is inside the mask with a       *)
(* nonzero value, and for every amount every other pixel of result equals  *)
(* the dst pixel.                                                          *)
(***************************************************************************)
C4_MaskedGate ==
    (op = "blendMasked" /\ pc = "done") =>
        /\ touched.writes = {p \in Coords(dst) : Passes(p)}
        /\ result.rows = dst.rows /\ result.cols = dst.cols
        /\ DOMAIN result.px \subseteq Coords(dst)
        /\ \A p \in Coords(dst) :
              ~Passes(p) => At(result, p[1], p[2]) = At(dst, p[1], p[2])

\* a 1x5 mask over a 1x2 src: offset_x = (2 - 5)/2 = -1
C4_Witness ==
    /\ op = "blendMasked" /\ pc = "done" /\ amount = AmountDen
    /\ src.type = CV_8UC4
    /\ mask.cols = 5 /\ src.cols = 2 /\ origin = [x |-> 1, y |-> 0]
    /\ MaskPos(<<0, 1>>) = <<0, 1>> /\ MaskPos(<<0, 2>>) = <<0, 2>>
    /\ At(result, 0, 1) = At(dst, 0, 1)
    /\ At(result, 0, 2) = At(src, 0, 1)
    /\ At(result, 0, 2) # At(dst, 0, 2)

FourFormats == {CV_8UC3, CV_8UC4, CV_32FC3, CV_32FC4}

ValidCall ==
    /\ src.type = dst.type
    /\ op = "blendMasked" => mask.type = CV_8UC1

(***************************************************************************)
(* C8 (as stated): both blends complete with a blended result for each of  *)
(* 8-bit 3-channel, 8-bit 4-channel, float 3-channel and float 4-channel,  *)
(* and abort in the default branch for every other channel/depth           *)
(* combination.                                                            *)
(***************************************************************************)
C8_FourFormatsAsStated ==
    (op \in {"blend", "blendMasked"} /\ ValidCall) =>
        IF dst.type \in FourFormats THEN pc = "done" ELSE pc = "aborted"

\* every pixel of result is the mix at the written pixels and dst's elsewhere
IsBlended ==
    /\ result.rows = dst.rows /\ result.cols = dst.cols /\ result.type = dst.type
    /\ \A p \in Coords(dst) :
          At(result, p[1], p[2]) =
              IF p \in touched.writes
              THEN Mix(dst.type, At(dst, p[1], p[2]),
                       At(src, p[1] - origin.y, p[2] - origin.x), amount)
              ELSE At(dst, p[1], p[2])

(***************************************************************************)
(* C8 (amended): with src and dst of one type (and an 8-bit 1-channel      *)
(* mask), the rectangular blend completes with a blended result exactly    *)
(* for 8-bit 4-channel and float 4-channel and aborts for every other      *)
(* type; the masked blend completes with a blended result for 8-bit        *)
(* 4-channel, float 3-channel and float 4-channel, and for any other type  *)
(* aborts in the default branch when some pixel passes the mask gate and   *)
(* otherwise completes with result equal to dst.                           *)
(***************************************************************************)
C8_Formats ==
    (op \in {"blend", "blendMasked"} /\ ValidCall) =>
        /\ op = "blend" =>
              IF dst.type \in {CV_8UC4, CV_32FC4}
              THEN pc = "done" /\ touched.writes = Overlap /\ IsBlended
              ELSE pc = "aborted"
        /\ op = "blendMasked" =>
              IF dst.type \in {CV_8UC4, CV_32FC3, CV_32FC4}
              THEN pc = "done" /\ touched.writes = {p \in Coords(dst) : Passes(p)}
                   /\ IsBlended
              ELSE IF \E p \in Coords(dst) : Passes(p)
              THEN pc = "aborted"
              ELSE pc = "done" /\ SameMat(result, dst)

C8_Witness ==
    /\ op = "blendMasked" /\ ValidCall /\ dst.type = CV_32FC3
    /\ pc = "done" /\ amount = 1 /\ touched.writes # {}
    /\ \E p \in touched.writes : At(result, p[1], p[2]) # At(dst, p[1], p[2])

C8_WitnessDefault ==
    /\ op = "blendMasked" /\ ValidCall /\ dst.type = CV_8UC3
    /\ pc = "aborted" /\ \E p \in Coords(dst) : Passes(p)

C8_WitnessUngated ==
    /\ op = "blendMasked" /\ ValidCall /\ dst.type = CV_8UC3
    /\ pc = "done" /\ Overlap # {}

(***************************************************************************)
(* Makeup::createEyeShadow                                                 *)
(***************************************************************************)
\* unpack: cv::Vec3i(c & 0xFF, (c >> 8) & 0xFF, (c >> 16) & 0xFF)
Unpack(c) == <<c.rgb % 256, (c.rgb \div 256) % 256, (c.rgb \div 65536) % 256>>

Abs(v) == IF v < 0 THEN -v ELSE v

ShadowQuotientsTruncated(sum, a) == {sum \div a}

\* rgb / a is cv::Vec3i / int: saturate_cast<int>(rgb[i] * (1. / a)), the
\* nearest integer; a tie falls on either side (the product is a rounded
\* double and the tie rule is the platform's cvRound).
ShadowQuotients(sum, a) ==
    {q \in {sum \div a, sum \div a + 1} : 2 * Abs(q * a - sum) <= a}

\* a_max after the loop over the layers
MaxAlpha(alphas) ==
    CHOOSE v \in {alphas[i] : i \in 1 .. 3} : \A i \in 1 .. 3 : alphas[i] <= v

\* the accumulators after the loop over the layers: [rgb, a, a_max]
ShadowSums(m, c, r, k) ==
    LET alpha == [i \in 1 .. 3 |-> At(m[i], r, k)[1]]
        col   == [i \in 1 .. 3 |-> Unpack(c[i])]
    IN  [rgb   |-> [j \in 1 .. 3 |->
                      col[1][j] * alpha[1] + col[2][j] * alpha[2]
                      + col[3][j] * alpha[3]],
         a     |-> alpha[1] + alpha[2] + alpha[3],
         a_max |-> MaxAlpha(alpha)]

\* the values bitmap.at<Vec4b>(r, k) can get
ShadowPixels(m, c, r, k) ==
    LET acc == ShadowSums(m, c, r, k)
        Q(j) == IF acc.a # 0 THEN ShadowQuotients(acc.rgb[j], acc.a)
                ELSE {acc.rgb[j]}
    IN  {IF USE_BGRA_LAYOUT THEN <<q3, q2, q1, acc.a_max>>
                            ELSE <<q1, q2, q3, acc.a_max>> :
            q1 \in Q(1), q2 \in Q(2), q3 \in Q(3)}

\* the images createEyeShadow can return
CreateEyeShadow(m, c) ==
    LET P == (0 .. m[1].rows - 1) \X (0 .. m[1].cols - 1)
    IN  {Mat(m[1].rows, m[1].cols, CV_8UC4, px[<<0, 0>>], px) :
            px \in {f \in [P -> UNION {ShadowPixels(m, c, p[1], p[2]) : p \in P}] :
                      \A p \in P : f[p] \in ShadowPixels(m, c, p[1], p[2])}}

(***************************************************************************)
(* Specification of createEyeShadow                                        *)
(***************************************************************************)
ShadowValues == {0, 1, 255}

ShadowMasks == {RowMat(CV_8UC1, <<<<v>>, <<w>>>>) : v, w \in ShadowValues}

\* {0x112233, 0x445566, 0x778899}, {0x000001, 0x000002, 0xFF00FF},
\* {0xFFFFFF, 0x000000, 0x010203}
ShadowColors ==
    {<<Color(255, 1122867), Color(255, 4478310), Color(255, 7833753)>>,
     <<Color(255, 1), Color(128, 2), Color(0, 16711935)>>,
     <<Color(255, 16777215), Color(255, 0), Color(255, 66051)>>}

InitShadow ==
    /\ pc = "ready"
    /\ USE_BGRA_LAYOUT \in BOOLEAN
    /\ mask \in ShadowMasks \X ShadowMasks \X ShadowMasks
    /\ color \in ShadowColors
    /\ bitmap = None
    /\ dst = None /\ src = None /\ origin = None /\ amount = None
    /\ image = None /\ result = None /\ touched = None /\ op = None
    /\ points = None /\ shape = None /\ polygon = None
    /\ cosmetic = None /\ offsetY = None /\ blends = None

DoCreateEyeShadow ==
    /\ pc = "ready"
    /\ bitmap' \in CreateEyeShadow(mask, color)
    /\ pc' = "done"
    /\ op' = "createEyeShadow"
    /\ UNCHANGED <<inputs, image, result, touched, polygon, blends>>

NextShadow == DoCreateEyeShadow

SpecShadow == InitShadow /\ [][NextShadow]_vars

\* the bytes of the output pixel that hold the color's low, second and third byte
ChannelOf(out, j) == IF USE_BGRA_LAYOUT THEN out[4 - j] ELSE out[j]

(***************************************************************************)
(* C6 (as stated): each output color channel is the sum over the layers of *)
(* colorChannel[i] * mask[i] integer-divided by the sum of the mask        *)
(* values (0 when that sum is 0), the alpha is the maximum mask value, and *)
(* every color channel is in 0..255.                                       *)
(***************************************************************************)
C6_ShadowAsStated ==
    (op = "createEyeShadow" /\ pc = "done") =>
        \A p \in Coords(bitmap) :
            LET out == At(bitmap, p[1], p[2])
                m   == [i \in 1 .. 3 |-> At(mask[i], p[1], p[2])[1]]
                sum == m[1] + m[2] + m[3]
                ch(i, j) == Unpack(color[i])[j]
                acc(j) == ch(1, j) * m[1] + ch(2, j) * m[2] + ch(3, j) * m[3]
            IN  /\ \A j \in 1 .. 3 :
                      /\ ChannelOf(out, j) = IF sum = 0 THEN 0 ELSE acc(j) \div sum
                      /\ ChannelOf(out, j) \in 0 .. 255
                /\ \A i \in 1 .. 3 : out[4] >= m[i]
                /\ \E i \in 1 .. 3 : out[4] = m[i]

(***************************************************************************)
(* C6 (amended): each output color channel is that weighted sum divided by *)
(* the sum of the mask values and rounded to the nearest integer (0 when   *)
(* the mask sum is 0); the alpha is the maximum mask value; every color    *)
(* channel is in 0..255; when exactly one mask is nonzero at a pixel       *)
(* (value v, color C) the output color is C's and the alpha is v.          *)
(***************************************************************************)
C6_Shadow ==
    (op = "createEyeShadow" /\ pc = "done") =>
        /\ bitmap.rows = mask[1].rows /\ bitmap.cols = mask[1].cols
        /\ \A p \in Coords(bitmap) :
            LET out == At(bitmap, p[1], p[2])
                m   == [i \in 1 .. 3 |-> At(mask[i], p[1], p[2])[1]]
                sum == m[1] + m[2] + m[3]
                ch(i, j) == Unpack(color[i])[j]
                acc(j) == ch(1, j) * m[1] + ch(2, j) * m[2] + ch(3, j) * m[3]
            IN  /\ \A j \in 1 .. 3 :
                      /\ sum = 0 => ChannelOf(out, j) = 0
                      /\ sum # 0 => 2 * Abs(ChannelOf(out, j) * sum - acc(j)) <= sum
                      /\ ChannelOf(out, j) \in 0 .. 255
                /\ \A i \in 1 .. 3 : out[4] >= m[i]
                /\ \E i \in 1 .. 3 : out[4] = m[i]
                /\ \A i \in 1 .. 3 :
                      (m[i] # 0 /\ \A k \in 1 .. 3 \ {i} : m[k] = 0) =>
                          /\ \A j \in 1 .. 3 : ChannelOf(out, j) = ch(i, j)
                          /\ out[4] = m[i]

\* layers 0x112233 at 1 and 0x445566 at 255: (51 + 102 * 255) / 256 = 101.8
C6_Witness ==
    /\ op = "createEyeShadow" /\ pc = "done" /\ ~USE_BGRA_LAYOUT
    /\ color[1] = Color(255, 1122867)
    /\ At(mask[1], 0, 0) = <<1>> /\ At(mask[2], 0, 0) = <<255>>
    /\ At(mask[3], 0, 0) = <<0>>
    /\ At(bitmap, 0, 0) = <<102, 85, 68, 255>>
    /\ At(mask[1], 0, 1) = <<0>> /\ At(mask[2], 0, 1) = <<0>>
    /\ At(mask[3], 0, 1) = <<1>>
    /\ At(bitmap, 0, 1) = <<153, 136, 119, 1>>

(***************************************************************************)
(* Makeup::createPolygon                                                   *)
(* A cv::Point2f is [x, y] in units of 1/Unit pixel, so that thirds and    *)
(* thousandths of a landmark coordinate are exact.                         *)
(***************************************************************************)
Unit == 3 * 1000

Pt(x, y) == [x |-> x, y |-> y]

\* Feature::COUNT, the length of a landmark set
COUNT == 81

\* the landmark indices Makeup.cpp reads
Used ==
    {0, 1, 2, 3, 9, 10, 11, 12, 32, 33, 41, 51, 53, 56, 58, 59, 61, 62}
    \cup {22, 23, 24, 25, 26, 29, 30, 31, 42, 43, 52, 54}
    \cup (34 .. 41) \cup (44 .. 51)

SideIndexSlip(right) ==
    [p02 |-> IF right THEN 2 ELSE 10,  p62 |-> IF right THEN 62 ELSE 58,
     p00 |-> IF right THEN 0 ELSE 12,  p01 |-> IF right THEN 1 ELSE 11,
     p33 |-> IF right THEN 33 ELSE 32, p41 |-> IF right THEN 41 ELSE 41,
     p61 |-> IF right THEN 61 ELSE 59, p03 |-> IF right THEN 3 ELSE 9]

\* the index table of lines 86-93 (p02 is _02 and so on)
SideIndex(right) ==
    [p02 |-> IF right THEN 2 ELSE 10,  p62 |-> IF right THEN 62 ELSE 58,
     p00 |-> IF right THEN 0 ELSE 12,  p01 |-> IF right THEN 1 ELSE 11,
     p33 |-> IF right THEN 33 ELSE 32, p41 |-> IF right THEN 41 ELSE 51,
     p61 |-> IF right THEN 61 ELSE 59, p03 |-> IF right THEN 3 ELSE 9]

Add(p, q) == Pt(p.x + q.x, p.y + q.y)
Scale(p, k) == Pt(p.x * k, p.y * k)
\* p / k on coordinates that are multiples of k
Over(p, k) == Pt(p.x \div k, p.y \div k)

\* v / d rounded to the nearest integer
RoundDiv(v, d) == (2 * v + d) \div (2 * d)

\* N of the DISK case
DiskN == 12

\* 1000 * cos(t) and 1000 * sin(t) at t = i / (2 * M_PI) * N, i = 0 .. N - 1
DiskCos == <<1000, -333, -779, 851, 213, -992, 447, 695, -909, -90, 969, -555>>
DiskSin == <<0, 943, -627, -526, 977, -124, -894, 719, 416, -996, 246, 832>>

Disk(P, ix) ==
    LET center == Pt((P[ix.p62].x + P[ix.p02].x) \div 2, P[ix.p62].y)
        radius == Abs(P[ix.p62].x - P[ix.p02].x) \div 2
    IN  [i \in 1 .. DiskN |->
            Pt(center.x + RoundDiv(radius * DiskCos[i], 1000),
               center.y + RoundDiv(radius * DiskSin[i], 1000))]

Oval(P, ix) ==
    << Over(Add(P[ix.p00], Scale(P[ix.p01], 2)), 3),
       P[ix.p01],
       Over(Add(Scale(P[ix.p01], 2), P[ix.p02]), 3),
       Over(Add(P[ix.p01], Scale(P[ix.p02], 2)), 3),
       Pt(P[ix.p33].x, P[ix.p61].y),
       P[ix.p62],
       Pt(P[ix.p41].x, P[53].y) >>

Sub(p, q) == Pt(p.x - q.x, p.y - q.y)

\* Feature::getSymmetryAxis() (venus/Feature.h): the direction (line[0],
\* line[1]) of the face's axis, taken here from landmark 53 to landmark 56
SymmetryAxis(P) == Sub(P[56], P[53])

\* v / |v| for a vector along one of the image axes (the faces are upright)
Direction(v) ==
    CASE v.x = 0 /\ v.y > 0 -> Pt(0, 1)
      [] v.x = 0 /\ v.y < 0 -> Pt(0, -1)
      [] v.y = 0 /\ v.x > 0 -> Pt(1, 0)
      [] v.y = 0 /\ v.x < 0 -> Pt(-1, 0)

\* venus::distance(point, line) (venus/scalar.h): the distance of p from the
\* symmetry axis, the line through landmark 53 along line
Distance(p, P, line) ==
    Abs((p.x - P[53].x) * line.y - (p.y - P[53].y) * line.x)

\* venus::catmullRomSpline(t, p0, p1, p2, p3) (venus/scalar.h) at t = k / 3:
\* the point of the spline between p1 and p2, taken here with the uniform
\* parametrisation, 54 q = 54 p1 + 27 (p2 - p0) t + 27 (2 p0 - 5 p1 + 4 p2
\* - p3) t^2 + 27 (3 p1 - p0 - 3 p2 + p3) t^3
CatmullRomSpline(k, p0, p1, p2, p3) ==
    LET at(a0, a1, a2, a3) ==
            RoundDiv(54 * a1 + 9 * k * (a2 - a0)
                         + 3 * k * k * (2 * a0 - 5 * a1 + 4 * a2 - a3)
                         + k * k * k * (3 * a1 - a0 - 3 * a2 + a3), 54)
    IN  Pt(at(p0.x, p1.x, p2.x, p3.x), at(p0.y, p1.y, p2.y, p3.y))

\* a TRIANGLE without the last entry of the initializer list
TriangleOfSix(P, ix) ==
    << Pt(P[ix.p33].x, P[ix.p62].y),
       Over(Add(P[ix.p02], P[ix.p03]), 2),
       P[ix.p02],
       CatmullRomSpline(2, P[ix.p00], P[ix.p01], P[ix.p02], P[ix.p03]),
       CatmullRomSpline(1, P[ix.p00], P[ix.p01], P[ix.p02], P[ix.p03]),
       P[ix.p01] >>

\* the initializer list of lines 134-143
Triangle(P, ix) ==
    << Pt(P[ix.p33].x, P[ix.p62].y),
       Over(Add(P[ix.p02], P[ix.p03]), 2),
       P[ix.p02],
       CatmullRomSpline(2, P[ix.p00], P[ix.p01], P[ix.p02], P[ix.p03]),
       CatmullRomSpline(1, P[ix.p00], P[ix.p01], P[ix.p02], P[ix.p03]),
       P[ix.p01],
       Over(Add(P[ix.p00], Scale(P[ix.p01], 2)), 3) >>

\* N of createHeartShape
HeartN == 32

\* 1000 * x and 1000 * y of the heart curve at t = i * 2 * M_PI / N:
\* x = sin(t)^3, y = (13 cos(t) - 5 cos(2t) - 2 cos(3t) - cos(4t)) / -16
HeartX ==
    <<0, 7, 56, 171, 354, 575, 789, 943, 1000, 943, 789, 575, 354, 171, 56, 7,
      0, -7, -56, -171, -354, -575, -789, -943, -1000, -943, -789, -575, -354,
      -171, -56, -7>>
HeartY ==
    <<-312, -360, -482, -625, -725, -738, -647, -472, -250, -17, 205, 410, 600,
      775, 924, 1026, 1062, 1026, 924, 775, 600, 410, 205, -17, -250, -472,
      -647, -738, -725, -625, -482, -360>>

\* Makeup::createHeartShape(center, radius, angle); rot is 1000 * (cosa, sina)
CreateHeartShape(center, radius, rot) ==
    [i \in 1 .. HeartN |->
        LET x == RoundDiv(HeartX[i] * rot.x - HeartY[i] * rot.y, 1000)
            y == RoundDiv(HeartX[i] * rot.y + HeartY[i] * rot.x, 1000)
        IN  Pt(center.x + RoundDiv(radius * x, 1000),
               center.y + RoundDiv(radius * y, 1000))]

\* lines 149-162; down along +y gives angle = atan2(1, 0) - M_PI / 2 = 0
Heart(P, ix, right) ==
    LET x0     == Over(Add(P[ix.p62], P[ix.p02]), 2)
        y0     == Over(Add(P[53], Scale(P[56], 2)), 3)
        line   == Direction(SymmetryAxis(P))
        radius == Abs(Distance(P[ix.p62], P, line) - Distance(P[ix.p02], P, line))
        d      == Distance(x0, P, line)
        N      == IF right THEN Pt(line.y, -line.x) ELSE Pt(-line.y, line.x)
        center == Add(y0, Scale(N, d))
        \* 1000 * (cos(angle), sin(angle)): down turned back by a quarter turn
        rot    == Pt(1000 * line.y, -1000 * line.x)
    IN  CreateHeartShape(center, radius, rot)

\* N of the SEAGULL case
SeagullN == 10

\* knot_r and knot_l
Knot(right) == IF right THEN <<42, 22, 23, 24, 25>> ELSE <<43, 29, 30, 31, 26>>

\* the indices of seagull[] that lines 177-190 assign
SeagullAssigned == {0, 5} \cup {i : i \in 1 .. 4} \cup {10 - i : i \in 1 .. 4}

\* lines 168-191: slot k of the vector is seagull[k - 1]; a slot the code
\* does not assign keeps the Point2f() the vector was built with
Seagull(P, ix, right) ==
    LET knot     == Knot(right)
        down     == Direction(Sub(P[56], P[53]))
        carriage == P[knot[1]]
        lift(i, k) ==
            LET point == P[knot[i + 1]]
                d     == Sub(carriage, point)
                dot   == d.x * down.x + d.y * down.y
            IN  Add(point, Scale(down, k * dot))
    IN  [k \in 1 .. SeagullN |->
            CASE k - 1 = 0 -> P[ix.p01]
              [] k - 1 = 5 -> P[IF right THEN 54 ELSE 52]
              [] k - 1 \in 1 .. 4 -> lift(k - 1, 3)
              [] 10 - (k - 1) \in 1 .. 4 -> lift(10 - (k - 1), 2)
              [] OTHER -> Pt(0, 0)]

Shapes == {"DISK", "OVAL"}

\* every BlushShape but DEFAULT, which is Feature::calculateBlushPolygon
BlushShapes == Shapes \cup {"TRIANGLE", "HEART", "SEAGULL"}

\* the returned vector, or "aborted" when the assertion of line 84 fails
CreatePolygon(pts, sh, right) ==
    IF pts.size # COUNT THEN "aborted"
    ELSE CASE sh = "DISK" -> Disk(pts.at, SideIndex(right))
           [] sh = "OVAL" -> Oval(pts.at, SideIndex(right))
           [] sh = "TRIANGLE" -> Triangle(pts.at, SideIndex(right))
           [] sh = "HEART" -> Heart(pts.at, SideIndex(right), right)
           [] sh = "SEAGULL" -> Seagull(pts.at, SideIndex(right), right)

(***************************************************************************)
(* Specification of createPolygon: a landmark set and a shape are drawn,   *)
(* then createPolygon runs for either side, as applyBlush calls it.        *)
(***************************************************************************)
\* the right-side landmarks of a face, in pixels, and their left-side twins
RightBase ==
    [i \in {0, 1, 2, 3, 62, 33, 41, 61, 42, 22, 23, 24, 25, 54} |->
        CASE i = 0 -> Pt(20, 100)  [] i = 1 -> Pt(22, 130)
          [] i = 2 -> Pt(30, 160)  [] i = 3 -> Pt(45, 185)
          [] i = 62 -> Pt(70, 150) [] i = 33 -> Pt(60, 110)
          [] i = 41 -> Pt(55, 105) [] i = 61 -> Pt(72, 140)
          [] i = 42 -> Pt(50, 100) [] i = 22 -> Pt(40, 80)
          [] i = 23 -> Pt(48, 76)  [] i = 24 -> Pt(56, 78)
          [] i = 25 -> Pt(64, 84)  [] i = 54 -> Pt(80, 170)]

Twin ==
    [i \in {12, 11, 10, 9, 58, 32, 51, 59, 43, 29, 30, 31, 26, 52} |->
        CASE i = 12 -> 0  [] i = 11 -> 1  [] i = 10 -> 2  [] i = 9 -> 3
          [] i = 58 -> 62 [] i = 32 -> 33 [] i = 51 -> 41 [] i = 59 -> 61
          [] i = 43 -> 42 [] i = 29 -> 22 [] i = 30 -> 23 [] i = 31 -> 24
          [] i = 26 -> 25 [] i = 52 -> 54]

\* a face with axis x = m; d moves some right-side points, e some left-side
\* points off their mirror positions
Face(m, d, e) ==
    LET R(i) == Pt(RightBase[i].x + (IF i \in {1, 62} THEN d.x ELSE 0),
                   RightBase[i].y + (IF i \in {2, 61} THEN d.y ELSE 0))
        L(i) == Pt(2 * m - R(Twin[i]).x + (IF i \in {11, 51} THEN e.x ELSE 0),
                   R(Twin[i]).y + (IF i \in {10, 58} THEN e.y ELSE 0))
    IN  [i \in Used |->
            Scale(IF i \in DOMAIN RightBase THEN R(i)
                  ELSE IF i \in DOMAIN Twin THEN L(i)
                  ELSE IF i = 53 THEN Pt(m, 120) ELSE Pt(m, 200), Unit)]

Faces ==
    {Face(m, Pt(dx, dy), Pt(ex, ey)) :
        m \in {100, 113}, dx \in {0, 4}, dy \in {0, 7},
        ex \in {0, 3}, ey \in {0, 5}}

Landmarks == {[size |-> n, at |-> f] : n \in {COUNT, COUNT - 1}, f \in Faces}

NoPolygon == [right \in BOOLEAN |-> <<>>]

InitPolygon ==
    /\ pc = "ready"
    /\ USE_BGRA_LAYOUT = FALSE
    /\ points \in Landmarks
    /\ shape \in BlushShapes
    /\ polygon = NoPolygon
    /\ mask = None /\ color = None /\ bitmap = None
    /\ dst = None /\ src = None /\ origin = None /\ amount = None
    /\ image = None /\ result = None /\ touched = None /\ op = None
    /\ cosmetic = None /\ offsetY = None /\ blends = None

DoCreatePolygon(right) ==
    /\ pc = "ready"
    /\ polygon[right] = <<>>
    /\ LET v == CreatePolygon(points, shape, right)
       IN  IF points.size # COUNT
           THEN pc' = "aborted" /\ polygon' = polygon
           ELSE /\ polygon' = [polygon EXCEPT ![right] = v]
                /\ pc' = IF polygon[~right] = <<>> THEN "ready" ELSE "done"
    /\ op' = "createPolygon"
    /\ UNCHANGED <<inputs, image, result, touched, bitmap, blends>>

NextPolygon == \E right \in BOOLEAN : DoCreatePolygon(right)

SpecPolygon == InitPolygon /\ [][NextPolygon]_vars

\* the pairs of C10 mirror each other about the vertical line through point 53
MirrorPairs ==
    {<<0, 12>>, <<1, 11>>, <<2, 10>>, <<62, 58>>, <<33, 32>>, <<41, 51>>,
     <<61, 59>>}

Symmetric(P) ==
    \A pr \in MirrorPairs :
        /\ P[pr[1]].x + P[pr[2]].x = 2 * P[53].x
        /\ P[pr[1]].y = P[pr[2]].y

(***************************************************************************)
(* C10: for a landmark set that is left-right symmetric about x = m,       *)
(* createPolygon with OVAL returns for right = true and right = false two  *)
(* 7-vertex polygons whose k-th vertices are horizontal mirror images of   *)
(* each other about x = m.                                                 *)
(***************************************************************************)
C10_OvalMirror ==
    (op = "createPolygon" /\ pc = "done" /\ shape = "OVAL"
        /\ Symmetric(points.at)) =>
        /\ Len(polygon[TRUE]) = 7 /\ Len(polygon[FALSE]) = 7
        /\ \A k \in 1 .. 7 :
              /\ polygon[TRUE][k].x + polygon[FALSE][k].x = 2 * points.at[53].x
              /\ polygon[TRUE][k].y = polygon[FALSE][k].y

\* axis x = 113: the first vertex (p0 + 2 p1) / 3 is (64/3, 120) and its
\* mirror image (226 - 64/3, 120)
C10_Witness ==
    /\ op = "createPolygon" /\ pc = "done" /\ shape = "OVAL"
    /\ Symmetric(points.at)
    /\ points.at[53].x = 113 * Unit /\ points.at[1].x = 22 * Unit
    /\ polygon[TRUE][1] = Pt(64 * 1000, 120 * Unit)
    /\ polygon[FALSE][1] = Pt(226 * Unit - 64 * 1000, 120 * Unit)
    /\ polygon[TRUE][7].x # polygon[FALSE][7].x

\* the vertex count of each shape as the source builds it
VertexCount(sh) ==
    CASE sh = "DISK" -> DiskN
      [] sh = "OVAL" -> 7
      [] sh = "TRIANGLE" -> 7
      [] sh = "HEART" -> HeartN
      [] sh = "SEAGULL" -> SeagullN

\* a polygon createPolygon has returned for one side
Returned(right) == op = "createPolygon" /\ polygon[right] # <<>>

(***************************************************************************)
(* C11 as stated: for every landmark set and either side, createPolygon    *)
(* returns 12 vertices for DISK, 7 for OVAL, 6 for TRIANGLE, 32 for HEART  *)
(* and 10 for SEAGULL with every one of the 10 slots assigned.             *)
(***************************************************************************)
C11_VertexCountsAsStated ==
    \A right \in BOOLEAN :
        Returned(right) =>
            /\ Len(polygon[right]) =
                   (IF shape = "TRIANGLE" THEN 6 ELSE VertexCount(shape))
            /\ shape = "SEAGULL" =>
                   /\ SeagullAssigned = 0 .. SeagullN - 1
                   /\ \A k \in 1 .. SeagullN : polygon[right][k] # Pt(0, 0)

(***************************************************************************)
(* C11 amended: for every landmark set and either side, createPolygon      *)
(* returns 12 vertices for DISK, 7 for OVAL, 7 for TRIANGLE, 32 for HEART  *)
(* (the count createHeartShape returns) and 10 for SEAGULL with every one  *)
(* of the 10 slots assigned.                                               *)
(***************************************************************************)
C11_VertexCounts ==
    \A right \in BOOLEAN :
        Returned(right) =>
            /\ Len(polygon[right]) = VertexCount(shape)
            /\ DOMAIN polygon[right] = 1 .. VertexCount(shape)
            /\ shape = "HEART" =>
                   Len(CreateHeartShape(Pt(0, 0), Unit, Pt(1000, 0))) = 32
            /\ shape = "SEAGULL" =>
                   /\ SeagullAssigned = 0 .. SeagullN - 1
                   /\ \A k \in 1 .. SeagullN : polygon[right][k] # Pt(0, 0)

\* a TRIANGLE of the right side: 7 vertices, the last one (p0 + 2 p1) / 3 =
\* (64/3, 120) and the first one (p33.x, p62.y) = (60, 150)
C11_Witness ==
    /\ Returned(TRUE) /\ shape = "TRIANGLE"
    /\ points.at[1] = Scale(Pt(22, 130), Unit)
    /\ points.at[62] = Scale(Pt(70, 150), Unit)
    /\ Len(polygon[TRUE]) = 7
    /\ polygon[TRUE][1] = Scale(Pt(60, 150), Unit)
    /\ polygon[TRUE][7] = Pt(64 * 1000, 120 * Unit)

\* 1000 * cos and 1000 * sin of i * 2 * pi / 12, i = 0 .. 11
EvenCos == <<1000, 866, 500, 0, -500, -866, -1000, -866, -500, 0, 500, 866>>
EvenSin == <<0, 500, 866, 1000, 866, 500, 0, -500, -866, -1000, -866, -500>>

\* two coordinates that differ by no more than a hundredth of a pixel
Near(a, b) == 100 * Abs(a - b) <= Unit

\* the 12 evenly spaced points of the circle with the given center and radius
OnEvenCircle(poly, center, radius) ==
    /\ Len(poly) = 12
    /\ \A i \in 1 .. 12 :
          /\ Near(poly[i].x, center.x + RoundDiv(radius * EvenCos[i], 1000))
          /\ Near(poly[i].y, center.y + RoundDiv(radius * EvenSin[i], 1000))

(***************************************************************************)
(* C12 as stated: createPolygon with DISK returns 12 points on the circle  *)
(* whose center is the midpoint, in x and in y, of the two defining        *)
(* landmarks (62 and 2 on the right side, 58 and 10 on the left) and whose *)
(* radius is half their horizontal distance, the i-th point at the angle   *)
(* i * 2 * pi / 12, i = 0 .. 11.                                           *)
(***************************************************************************)
C12_DiskAsStated ==
    \A right \in BOOLEAN :
        (Returned(right) /\ shape = "DISK") =>
            LET ix == SideIndex(right)
                a  == points.at[ix.p62]
                b  == points.at[ix.p02]
            IN  OnEvenCircle(polygon[right],
                             Pt((a.x + b.x) \div 2, (a.y + b.y) \div 2),
                             Abs(a.x - b.x) \div 2)

(***************************************************************************)
(* Geometry used by the entry points.  A coordinate is a whole number of   *)
(* 1/Unit pixels.                                                          *)
(***************************************************************************)
SetMin(S) == CHOOSE v \in S : \A w \in S : v <= w
SetMax(S) == CHOOSE v \in S : \A w \in S : w <= v

\* cvFloor of a coordinate, in pixels
Floor(v) == v \div Unit

\* cv::boundingRect of a vector of Point2f: floor of the least corner, and
\* floor(max) - floor(min) + 1 pixels each way
BoundingRect(poly) ==
    LET xs == {poly[i].x : i \in DOMAIN poly}
        ys == {poly[i].y : i \in DOMAIN poly}
        x0 == Floor(SetMin(xs))
        y0 == Floor(SetMin(ys))
    IN  Rect(x0, y0, Floor(SetMax(xs)) - x0 + 1, Floor(SetMax(ys)) - y0 + 1)

\* cvRound of a coordinate: the nearest pixel, a tie to the even one
Round(v) ==
    LET q == v \div Unit
        r == v % Unit
    IN  IF 2 * r < Unit THEN q
        ELSE IF 2 * r > Unit THEN q + 1
        ELSE IF q % 2 = 0 THEN q ELSE q + 1

\* cv::Point2f converted to cv::Point2i
ToPoint2i(p) == Pt(Round(p.x), Round(p.y))

\* a coordinate in hundredths of a pixel
Coarse(v) == (v * 100) \div Unit

\* the edge a-b crosses the horizontal ray that leaves p to the right
Crosses(a, b, p) ==
    /\ (a.y > p.y) # (b.y > p.y)
    /\ LET dy  == b.y - a.y
           lhs == (p.x - a.x) * dy
           rhs == (p.y - a.y) * (b.x - a.x)
       IN  IF dy > 0 THEN lhs < rhs ELSE lhs > rhs

OnEdge(a, b, p) ==
    /\ (b.x - a.x) * (p.y - a.y) = (b.y - a.y) * (p.x - a.x)
    /\ Min(a.x, b.x) <= p.x /\ p.x <= Max(a.x, b.x)
    /\ Min(a.y, b.y) <= p.y /\ p.y <= Max(a.y, b.y)

\* p is on the outline of the closed polygon cp or inside it (even-odd)
Inside(cp, p) ==
    LET N == Len(cp)
        nxt(i) == cp[(i % N) + 1]
    IN  \/ \E i \in 1 .. N : OnEdge(cp[i], nxt(i), p)
        \/ Cardinality({i \in 1 .. N : Crosses(cp[i], nxt(i), p)}) % 2 = 1

\* the 8-bit mask of a polygon over rect: 255 at the pixels the polygon
\* covers, 0 elsewhere
FillPoly(rect, poly) ==
    LET cp == [i \in 1 .. Len(poly) |-> Pt(Coarse(poly[i].x), Coarse(poly[i].y))]
    IN  Mat(rect.height, rect.width, CV_8UC1, <<0>>,
            [q \in (0 .. rect.height - 1) \X (0 .. rect.width - 1) |->
                IF Inside(cp, Pt((rect.x + q[2]) * 100, (rect.y + q[1]) * 100))
                THEN <<255>> ELSE <<0>>])

\* Feature::maskPolygonSmooth(rect, polygon, level) (venus/Feature.h): the
\* mask of the polygon over rect.  The smoothing of the outline is left out:
\* the mask is full inside the polygon and zero outside.
MaskPolygonSmooth(rect, poly, level) == FillPoly(rect, poly)

\* Feature::createMask(polygon) (venus/Feature.h): the tight mask of the
\* polygon, of the size of its bounding rectangle
CreateMask(poly) == FillPoly(BoundingRect(poly), poly)

RECURSIVE SeqSum(_)
SeqSum(s) == IF s = <<>> THEN 0 ELSE Head(s) + SeqSum(Tail(s))

\* m10 / m00 and m01 / m00 of cv::moments(polygon), for a polygon of a few
\* pixels: Green's formula on the coordinates relative to the first vertex
PolygonCentroid(poly) ==
    LET N == Len(poly)
        X(i) == Coarse(poly[i].x - poly[1].x)
        Y(i) == Coarse(poly[i].y - poly[1].y)
        nx(i) == (i % N) + 1
        cr(i) == X(i) * Y(nx(i)) - X(nx(i)) * Y(i)
        a  == SeqSum([i \in 1 .. N |-> cr(i)])
        sx == SeqSum([i \in 1 .. N |-> (X(i) + X(nx(i))) * cr(i)])
        sy == SeqSum([i \in 1 .. N |-> (Y(i) + Y(nx(i))) * cr(i)])
        sg == IF a < 0 THEN -1 ELSE 1
    IN  Pt(poly[1].x + RoundDiv(sg * sx * (Unit \div 100), 3 * sg * a),
           poly[1].y + RoundDiv(sg * sy * (Unit \div 100), 3 * sg * a))

\* the moment of the mask pixels S: m00 for w = 0, m01 (rows) for w = 1 and
\* m10 (columns) for w = 2
RECURSIVE MaskMoment(_, _, _)
MaskMoment(m, S, w) ==
    IF S = {} THEN 0
    ELSE LET p == CHOOSE q \in S : TRUE
         IN  At(m, p[1], p[2])[1] * (IF w = 0 THEN 1 ELSE p[w])
                 + MaskMoment(m, S \ {p}, w)

\* m10 / m00 and m01 / m00 of cv::moments(mask): the weighted centroid
MaskCentroid(m) ==
    LET m00 == MaskMoment(m, Coords(m), 0)
    IN  Pt(RoundDiv(MaskMoment(m, Coords(m), 2) * Unit, m00),
           RoundDiv(MaskMoment(m, Coords(m), 1) * Unit, m00))

\* Region::boundingRect(mask, tolerance) (venus/Region.h): the bounding
\* rectangle of the mask pixels above the tolerance
RegionBoundingRect(m, tolerance) ==
    LET S == {p \in Coords(m) : At(m, p[1], p[2])[1] > tolerance}
        x0 == SetMin({p[2] : p \in S})
        y0 == SetMin({p[1] : p \in S})
    IN  IF S = {} THEN Rect(0, 0, 0, 0)
        ELSE Rect(x0, y0, SetMax({p[2] : p \in S}) - x0 + 1,
                          SetMax({p[1] : p \in S}) - y0 + 1)

\* Region::inset(rect, d) (venus/Region.h): shrink by d on every side
Inset(rect, d) ==
    Rect(rect.x + d, rect.y + d, rect.width - 2 * d, rect.height - 2 * d)

\* cv::flip(m, m, 1): mirrored left to right
Flip(m) ==
    Mat(m.rows, m.cols, m.type, m.fill,
        [p \in {<<q[1], m.cols - 1 - q[2]>> : q \in DOMAIN m.px} |->
            m.px[<<p[1], m.cols - 1 - p[2]>>]])

\* the top-left width x height pixels of m
Crop(m, width, height) ==
    Mat(height, width, m.type, m.fill,
        [p \in {q \in DOMAIN m.px : q[1] < height /\ q[2] < width} |-> m.px[p]])

\* rect lies within the image
Within(rect, img) ==
    /\ 0 <= rect.x /\ 0 <= rect.y /\ 0 <= rect.width /\ 0 <= rect.height
    /\ rect.x + rect.width <= img.cols /\ rect.y + rect.height <= img.rows

(***************************************************************************)
(* What an entry point leaves behind: how it ended, the destination, the   *)
(* caller's brow template, the overlay and origin of its last blend and    *)
(* the number of blends it called.                                         *)
(***************************************************************************)
Applied(p, d, m, img, o, b) ==
    [pc |-> p, dst |-> d, mask |-> m, image |-> img, origin |-> o, blends |-> b]

\* Feature::Feature(image, points) (venus/Feature.h): a landmark set of any
\* other length than Feature::COUNT is a precondition failure
FeatureOk(pts) == pts.size = COUNT

\* Makeup::blend(dst, dst, overlay, origin, amount) in place, after b blends
BlendInPlace(d, m, overlay, o, n, b) ==
    LET out == BlendRectangular(d, d, overlay, o, n)
    IN  Applied(out.pc, IF out.pc = "done" THEN out.result ELSE d,
                m, overlay, o, b + 1)

(***************************************************************************)
(* Makeup::applyBlush                                                      *)
(***************************************************************************)
\* one turn of the loop of line 644
BlushSide(d, pts, sh, c, n, right, b) ==
    LET poly  == CreatePolygon(pts, sh, right)
        rect  == BoundingRect(poly)
        blush == Pack(MaskPolygonSmooth(rect, poly, 8), c)
    IN  BlendInPlace(d, None, blush, Pt(rect.x, rect.y), n, b)

ApplyBlush(d, s, pts, sh, c, n) ==
    IF s.rows = 0 \/ s.cols = 0 \/ pts.size # COUNT
    THEN Applied("aborted", d, None, EmptyMat, Pt(0, 0), 0)
    ELSE IF n < 0 \/ n > AmountDen
    THEN Applied("aborted", d, None, EmptyMat, Pt(0, 0), 0)
    ELSE LET left == BlushSide(s, pts, sh, c, n, FALSE, 0)
         IN  IF left.pc # "done" THEN left
             ELSE BlushSide(left.dst, pts, sh, c, n, TRUE, 1)

(***************************************************************************)
(* Makeup::applyBrow                                                       *)
(***************************************************************************)
\* constexpr int offset
BrowOffset == 8

\* Feature::calculateBrowPolygon(points, right) (venus/Feature.h): the
\* outline of one brow, taken here through four of its landmarks
BrowPolygon(P, right) ==
    IF right THEN <<P[22], P[23], P[24], P[25]>>
    ELSE <<P[29], P[30], P[31], P[26]>>

\* venus::lerp(a, b, alpha) on bytes (venus/scalar.h): a + (b - a) * alpha / 255
Lerp(a, b, alpha) == (a * (255 - alpha) + b * alpha + 127) \div 255

\* Inpainter (venus/inpaint.h): the image with every target pixel filled
\* from the known region, here from the nearest known pixel on its left in
\* the same row
Inpaint(roi, target) ==
    Mat(roi.rows, roi.cols, roi.type, roi.fill,
        [p \in Coords(roi) |->
            IF At(target, p[1], p[2])[1] = 0 THEN At(roi, p[1], p[2])
            ELSE LET c0 == SetMin({c \in 0 .. roi.cols - 1 :
                                      At(target, p[1], c)[1] # 0})
                 IN  At(roi, p[1], c0 - 1)])

\* lines 357-359: dst(rect_with_margin).clone() with the alpha stripped
BrowRoi(d, margin) ==
    Mat(margin.height, margin.width, CV_8UC3, <<0, 0, 0>>,
        [p \in (0 .. margin.height - 1) \X (0 .. margin.width - 1) |->
            SubSeq(At(d, margin.y + p[1], margin.x + p[2]), 1, 3)])

\* lines 361-363: roi_mask_with_margin, the polygon's mask at (offset, offset)
\* of a zero image of the size of rect_with_margin
BrowRoiMask(poly, margin) ==
    LET roi_mask == CreateMask(poly)
    IN  Mat(margin.height, margin.width, CV_8UC1, <<0>>,
            [p \in {<<q[1] + BrowOffset, q[2] + BrowOffset>> :
                       q \in Coords(roi_mask)} |->
                At(roi_mask, p[1] - BrowOffset, p[2] - BrowOffset)])

\* lines 365-385: roi after the inpainting
BrowPatch(d, poly) ==
    LET margin == Inset(BoundingRect(poly), -BrowOffset)
    IN  Inpaint(BrowRoi(d, margin), BrowRoiMask(poly, margin))

\* the branch of lines 387-391, which is compiled out: roi with alpha 255
\* copied onto dst(rect_with_margin) under roi_mask_with_margin
BrowEraseOverwrite(d, poly) ==
    LET margin    == Inset(BoundingRect(poly), -BrowOffset)
        inpainted == BrowPatch(d, poly)
        m         == BrowRoiMask(poly, margin)
        W == {q \in Coords(m) : At(m, q[1], q[2])[1] # 0}
        At0(p) == <<p[1] - margin.y, p[2] - margin.x>>
    IN  Mat(d.rows, d.cols, d.type, d.fill,
            [p \in DOMAIN d.px \cup {<<q[1] + margin.y, q[2] + margin.x>> : q \in W} |->
                IF At0(p) \in W
                THEN At(inpainted, At0(p)[1], At0(p)[2]) \o <<255>>
                ELSE d.px[p]])

\* lines 354-410: the destination with the brow under polygon erased
BrowErase(d, poly) ==
    LET rect   == BoundingRect(poly)
        margin == Inset(rect, -BrowOffset)
        roi_mask_with_margin == BrowRoiMask(poly, margin)
        inpainted == BrowPatch(d, poly)
        alpha(r, c) == At(roi_mask_with_margin, r + BrowOffset, c + BrowOffset)[1]
        W == {q \in (0 .. rect.height - 1) \X (0 .. rect.width - 1) :
                 alpha(q[1], q[2]) # 0}
        At0(p) == <<p[1] - rect.y, p[2] - rect.x>>
    IN  Mat(d.rows, d.cols, d.type, d.fill,
            [p \in DOMAIN d.px \cup {<<q[1] + rect.y, q[2] + rect.x>> : q \in W} |->
                IF At0(p) \in W
                THEN LET src_color == At(inpainted, At0(p)[1], At0(p)[2])
                         dst_color == At(d, p[1], p[2])
                         a == alpha(At0(p)[1], At0(p)[2])
                     IN  <<Lerp(dst_color[1], src_color[1], a),
                           Lerp(dst_color[2], src_color[2], a),
                           Lerp(dst_color[3], src_color[3], a),
                           dst_color[4]>>
                ELSE d.px[p]])

\* Region::transform and cv::warpAffine (lines 419-425): at angle 0 and
\* scale (1, 1) the transform is the identity and the warped mask is the
\* top-left target_size pixels of the template
WarpAffine(m, size, line, rect) ==
    CASE line.x = 0 /\ line.y > 0
         /\ rect.width = size.width /\ rect.height = size.height ->
            Crop(m, size.width, size.height)

\* one turn of the loop of line 345; m is the caller's template as it is
\* when the turn starts, center is makeup_center as it is then
BrowSide(d, P, m, makeup_rect, center, c, n, offY, right, b) ==
    LET poly   == BrowPolygon(P, right)
        rect   == BoundingRect(poly)
        line   == SymmetryAxis(P)
    IN  IF ~Within(Inset(rect, -BrowOffset), d)
        THEN Applied("aborted", d, m, EmptyMat, Pt(0, 0), b)
        ELSE LET erased == BrowErase(d, poly)
                 makeup_mask == IF right THEN m ELSE Flip(m)
                 target_center ==
                     IF right THEN center
                     ELSE Pt(makeup_rect.width * Unit - center.x, center.y)
                 affined_mask == WarpAffine(makeup_mask, makeup_rect, line, rect)
                 translation == Pt((offY * line.x) \div line.y, offY)
                 affined_brow == Pack(affined_mask, c)
                 o == ToPoint2i(Add(Sub(PolygonCentroid(poly), target_center),
                                    translation))
             IN  BlendInPlace(erased, makeup_mask, affined_brow, o, n, b)

ApplyBrow(d, s, pts, m, c, n, offY) ==
    IF s.type # CV_8UC4 \/ m.type # CV_8UC1
    THEN Applied("aborted", d, m, EmptyMat, Pt(0, 0), 0)
    ELSE IF ~FeatureOk(pts)       \* after src.copyTo(dst)
    THEN Applied("aborted", s, m, EmptyMat, Pt(0, 0), 0)
    ELSE LET makeup_rect == RegionBoundingRect(m, 4)
             center == MaskCentroid(m)
             right  == BrowSide(s, pts.at, m, makeup_rect, center, c, n, offY,
                                TRUE, 0)
         IN  IF right.pc # "done" THEN right
             ELSE BrowSide(right.dst, pts.at, m, makeup_rect, center, c, n,
                           offY, FALSE, 1)

(***************************************************************************)
(* Makeup::applyEye, applyEyeLash, applyEyeShadow                          *)
(***************************************************************************)
\* src_points, the landmarks 34..41 of the cosmetic texture
EyePoints ==
    <<Pt(633, 287), Pt(534, 228), Pt(458, 213), Pt(386, 228),
      Pt(290, 287), Pt(386, 350), Pt(458, 362), Pt(534, 353)>>

\* dst_points of lines 485-493
EyeDstPoints(P, right) ==
    [i \in 1 .. 8 |->
        IF right THEN P[33 + i]
        ELSE Pt(P[44].x + P[48].x - P[43 + i].x, P[43 + i].y)]

\* the eye's landmarks are the texture's moved by one translation
EyeMatches(P, right) ==
    \A i \in 1 .. 8 :
        Sub(EyeDstPoints(P, right)[i], Scale(EyePoints[i], Unit))
            = Sub(EyeDstPoints(P, right)[1], Scale(EyePoints[1], Unit))

\* Region::transform, cv::warpAffine and ImageWarp_Rigid (lines 498-523): for
\* an eye whose landmarks match the texture's the scale is 1, the angle 0 and
\* the point sets coincide, and the warped texture is the texture
WarpToEye(tex, P, right) == CASE EyeMatches(P, right) -> tex

\* one turn of the loop of line 478
EyeSide(d, P, tex, n, right, b) ==
    LET START == IF right THEN 34 ELSE 44
        PARAMS == Over(Scale(Add(EyePoints[1], EyePoints[5]), Unit), 2)
        dst_pivot == Over(Add(P[START], P[START + 4]), 2)
        warped == WarpToEye(tex, P, right)
        pivot == IF right THEN PARAMS
                 ELSE Pt((warped.cols - 1) * Unit - PARAMS.x, PARAMS.y)
        _cosmetic == IF right THEN warped ELSE Flip(warped)
    IN  BlendInPlace(d, None, _cosmetic, ToPoint2i(Sub(dst_pivot, pivot)), n, b)

ApplyEye(d, s, pts, tex, n) ==
    IF s.type # CV_8UC4 \/ tex.type # CV_8UC4
    THEN Applied("aborted", d, None, EmptyMat, Pt(0, 0), 0)
    ELSE LET right == EyeSide(s, pts.at, tex, n, TRUE, 0)
         IN  IF right.pc # "done" THEN right
             ELSE EyeSide(right.dst, pts.at, tex, n, FALSE, 1)

ApplyEyeLash(d, s, pts, m, c, n) ==
    IF m.type # CV_8UC1
    THEN Applied("aborted", d, None, EmptyMat, Pt(0, 0), 0)
    ELSE ApplyEye(d, s, pts, Pack(m, c), n)

\* the outcomes, one for each image createEyeShadow can return
ApplyEyeShadow(d, s, pts, m, c, n) ==
    {ApplyEye(d, s, pts, eye_shadow, n) : eye_shadow \in CreateEyeShadow(m, c)}

(***************************************************************************)
(* Makeup::applyLip                                                        *)
(***************************************************************************)
\* Feature::calculateLipshRegion() (venus/Feature.h): the mask of the lips
\* and its pivot, taken here as a fixed 2 x 3 mask about landmark 56
LipRegion(P) ==
    [mask  |-> GridMat(CV_8UC1, << <<<<255>>, <<128>>, <<0>>>>,
                                   <<<<0>>, <<255>>, <<1>>>> >>),
     pivot |-> P[56]]

ApplyLip(d, s, pts, c, n) ==
    IF s.rows = 0 \/ s.cols = 0 \/ Channels(s.type) # 4
    THEN Applied("aborted", d, None, EmptyMat, Pt(0, 0), 0)
    ELSE IF ~FeatureOk(pts)
    THEN Applied("aborted", d, None, EmptyMat, Pt(0, 0), 0)
    ELSE LET region == LipRegion(pts.at)
             m == region.mask
             o == ToPoint2i(Sub(region.pivot,
                                Over(Scale(Pt(m.cols, m.rows), Unit), 2)))
             lip == Mat(m.rows, m.cols, CV_8UC4, WordBytes(c),
                        [p \in {} |-> <<0>>])
             out == BlendMasked(d, s, lip, m, o, n)
         IN  Applied(out.pc, out.result, None, lip, o, 1)

(***************************************************************************)
(* Specification of the entry points: a caller holds a brow template and a *)
(* destination image and calls the apply<Feature> functions one after the  *)
(* other, until one of them aborts.                                        *)
(***************************************************************************)
EntryPoints ==
    {"applyBrow", "applyEye", "applyEyeLash", "applyEyeShadow", "applyBlush",
     "applyLip"}

\* a 256 x 256 opaque black image
Black == Mat(256, 256, CV_8UC4, <<0, 0, 0, 255>>, [p \in {} |-> <<0>>])

\* a 1500 x 400 photo: skin, the two brows, and marked pixels around them
Photo ==
    LET hair == {200, 201} \X {460, 461, 939, 940}
        edge == {200, 201} \X {459, 938}
        far  == {<<192, 452>>, <<192, 931>>, <<193, 453>>}
    IN  Mat(400, 1500, CV_8UC4, <<200, 160, 140, 255>>,
            [p \in hair \cup edge \cup far |->
                IF p \in hair THEN <<40, 30, 20, 255>>
                ELSE IF p \in edge THEN <<210, 170, 150, 128>>
                ELSE <<10, 20, 30, 255>>])

ApplySrcs == {Black, Photo, EmptyMat}

\* a face of the photo, in pixels: the eyes lie as in the cosmetic texture
\* (the left one mirrored about x = 700), a brow is a box of 2 x 2 pixels
ApplyFace ==
    LET R == [i \in {0, 1, 2, 3, 33, 61, 62, 22, 23, 24, 25} |->
                 CASE i = 0 -> Pt(528, 350)  [] i = 1 -> Pt(529, 353)
                   [] i = 2 -> Pt(530, 356)  [] i = 3 -> Pt(531, 359)
                   [] i = 33 -> Pt(533, 351) [] i = 61 -> Pt(534, 354)
                   [] i = 62 -> Pt(534, 355) [] i = 22 -> Pt(460, 200)
                   [] i = 23 -> Pt(461, 200) [] i = 24 -> Pt(461, 201)
                   [] i = 25 -> Pt(460, 201)]
        T == [i \in {12, 11, 10, 9, 32, 59, 58, 29, 30, 31, 26} |->
                 CASE i = 12 -> 0  [] i = 11 -> 1  [] i = 10 -> 2
                   [] i = 9 -> 3   [] i = 32 -> 33 [] i = 59 -> 61
                   [] i = 58 -> 62 [] i = 29 -> 23 [] i = 30 -> 22
                   [] i = 31 -> 25 [] i = 26 -> 24]
    IN  [i \in Used |->
            Scale(CASE i \in 34 .. 41 -> EyePoints[i - 33]
                    [] i \in 44 .. 51 ->
                           Pt(1400 - EyePoints[i - 43].x, EyePoints[i - 43].y)
                    [] i \in DOMAIN R -> R[i]
                    [] i \in DOMAIN T -> Pt(1400 - R[T[i]].x, R[T[i]].y)
                    [] i = 56 -> Pt(700, 380)
                    [] OTHER -> Pt(700, 352), Unit)]

\* the face of the blush scenario: both cheeks defined by (100, 150) and
\* (140, 150)
DiskFace ==
    [i \in Used |->
        IF i \in {2, 10} THEN Scale(Pt(100, 150), Unit)
        ELSE IF i \in {62, 58} THEN Scale(Pt(140, 150), Unit)
        ELSE ApplyFace[i]]

ValidPoints == [size |-> COUNT, at |-> ApplyFace]

\* the (source, landmarks, amount) an entry point is called with: the photo
\* at every amount n / AmountDen of [0, 1], and one argument off at a time:
\* the amount just below 0 or just above 1, a landmark short, no image, an
\* image too small for the face
ApplyCalls ==
    [src : {Photo}, points : {ValidPoints}, amount : -1 .. AmountDen + 1]
    \cup [src : {Photo}, points : {[size |-> COUNT - 1, at |-> ApplyFace]},
          amount : {AmountDen}]
    \cup [src : {EmptyMat, Black}, points : {ValidPoints}, amount : {AmountDen}]

\* the caller's brow template: stronger on its left than on its right
BrowTemplate ==
    GridMat(CV_8UC1, << <<<<255>>, <<128>>>>, <<<<255>>, <<64>>>> >>)

\* an eye texture of 3 x 2 pixels
EyeTexture ==
    GridMat(CV_8UC4, << <<<<255, 0, 0, 255>>, <<0, 255, 0, 128>>, <<0, 0, 255, 0>>>>,
                        <<<<9, 8, 7, 255>>, <<1, 2, 3, 64>>, <<0, 0, 0, 0>>>> >>)

LashMask == GridMat(CV_8UC1, << <<<<255>>, <<128>>, <<0>>>> >>)

ShadowLayers ==
    <<RowMat(CV_8UC1, <<<<255>>, <<0>>>>), RowMat(CV_8UC1, <<<<0>>, <<1>>>>),
      RowMat(CV_8UC1, <<<<0>>, <<255>>>>)>>

\* 0x112233, 0x445566, 0x778899
ShadowLayerColors ==
    <<Color(255, 1122867), Color(255, 4478310), Color(255, 7833753)>>

\* the scenario of applyBlush on the black image
DiskCall ==
    [src |-> Black, points |-> [size |-> COUNT, at |-> DiskFace],
     amount |-> AmountDen]

InitApply ==
    /\ pc = "ready"
    /\ USE_BGRA_LAYOUT \in BOOLEAN
    /\ mask = BrowTemplate
    /\ dst = EmptyMat
    /\ blends = 0
    /\ src = None /\ points = None /\ color = None /\ amount = None
    /\ shape = None /\ cosmetic = None /\ offsetY = None
    /\ image = None /\ origin = None /\ op = None
    /\ result = None /\ touched = None /\ bitmap = None /\ polygon = None

\* the entry point name ran on the arguments a and left out behind
Call(name, out, a, c, sh, tex, y) ==
    /\ pc # "aborted"
    /\ op' = name
    /\ src' = a.src /\ points' = a.points /\ amount' = a.amount
    /\ color' = c /\ shape' = sh /\ cosmetic' = tex /\ offsetY' = y
    /\ pc' = out.pc
    /\ dst' = out.dst
    /\ image' = out.image
    /\ origin' = out.origin
    /\ blends' = out.blends
    /\ UNCHANGED <<USE_BGRA_LAYOUT, result, touched, bitmap, polygon>>

DoApplyBrow ==
    \E a \in ApplyCalls, y \in {0, Unit} :
        LET c   == Color(192, 2109504)              \* 0xC0203040
            out == ApplyBrow(dst, a.src, a.points, mask, c, a.amount, y)
        IN  /\ Call("applyBrow", out, a, c, None, None, y)
            /\ mask' = out.mask          \* the caller's template

DoApplyEye ==
    \E a \in ApplyCalls :
        /\ Call("applyEye",
                ApplyEye(dst, a.src, a.points, EyeTexture, a.amount),
                a, None, None, EyeTexture, None)
        /\ mask' = mask

DoApplyEyeLash ==
    \E a \in ApplyCalls, m \in {LashMask, EyeTexture} :
        LET c == Color(255, 255)                    \* 0xFF0000FF
        IN  /\ m = EyeTexture => a.src = Photo /\ a.amount = AmountDen
            /\ Call("applyEyeLash",
                    ApplyEyeLash(dst, a.src, a.points, m, c, a.amount),
                    a, c, None, m, None)
            /\ mask' = mask

DoApplyEyeShadow ==
    \E a \in ApplyCalls :
        \E out \in ApplyEyeShadow(dst, a.src, a.points, ShadowLayers,
                                  ShadowLayerColors, a.amount) :
            /\ Call("applyEyeShadow", out, a, ShadowLayerColors, None,
                    ShadowLayers, None)
            /\ mask' = mask

DoApplyBlush ==
    \E a \in ApplyCalls \cup {DiskCall}, sh \in Shapes :
        LET c == Color(255, 255)                    \* 0xFF0000FF
        IN  /\ a = DiskCall => sh = "DISK" /\ op = None  \* a first call
            /\ Call("applyBlush",
                    ApplyBlush(dst, a.src, a.points, sh, c, a.amount),
                    a, c, sh, None, None)
            /\ mask' = mask

DoApplyLip ==
    \E a \in ApplyCalls :
        LET c == Color(192, 2109504)                \* 0xC0203040
        IN  /\ Call("applyLip", ApplyLip(dst, a.src, a.points, c, a.amount),
                    a, c, None, None, None)
            /\ mask' = mask

NextApply ==
    \/ DoApplyBrow
    \/ DoApplyEye
    \/ DoApplyEyeLash
    \/ DoApplyEyeShadow
    \/ DoApplyBlush
    \/ DoApplyLip

SpecApply == InitApply /\ [][NextApply]_vars

\* the scenario of C5 ran to its end
DiskScenario ==
    /\ op = "applyBlush" /\ pc = "done"
    /\ src = Black /\ shape = "DISK" /\ amount = AmountDen
    /\ points.at[2] = Scale(Pt(100, 150), Unit)
    /\ points.at[62] = Scale(Pt(140, 150), Unit)
    /\ color.a = 255

\* the pixel (r, c) lies in the disk of radius 20 about (120, 150)
InDisk(r, c) == (c - 120) * (c - 120) + (r - 150) * (r - 150) <= 20 * 20

\* the soft mask is 0 at the pixel (r, c): outside the overlay, or where the
\* overlay of the opaque color has alpha 0
MaskIsZero(r, c) ==
    \/ <<r - origin.y, c - origin.x>> \notin Coords(image)
    \/ At(image, r - origin.y, c - origin.x)[4] = 0

(***************************************************************************)
(* C5 (as stated): after applyBlush on the 256 x 256 opaque black image    *)
(* with DISK, the defining landmarks at (100, 150) and (140, 150), an      *)
(* opaque color and amount 1, every pixel in the disk of radius 20 about   *)
(* (120, 150) holds the packed color and every pixel where the soft mask   *)
(* is 0 is still opaque black.                                             *)
(***************************************************************************)
C5_BlushDiskAsStated ==
    DiskScenario =>
        \A p \in Coords(dst) :
            /\ InDisk(p[1], p[2]) =>
                  At(dst, p[1], p[2]) = WordBytes(PackWord(color, 255))
            /\ MaskIsZero(p[1], p[2]) =>
                  At(dst, p[1], p[2]) = <<0, 0, 0, 255>>

\* the arguments of the last call break a precondition C7 names
BadArguments ==
    \/ amount < 0 \/ amount > AmountDen
    \/ points.size # COUNT

(***************************************************************************)
(* C7 (as stated): an entry point called with an amount outside [0, 1] or  *)
(* with a landmark set of another length than Feature::COUNT aborts, has   *)
(* not called blend and leaves the destination as it was.                  *)
(***************************************************************************)
C7_AbortsAsStated ==
    [][(op' \in EntryPoints /\ BadArguments')
          => (pc' = "aborted" /\ blends' = 0 /\ SameMat(dst', dst))]_vars

(***************************************************************************)
(* C9 (as stated): a call of an entry point leaves the caller's brow       *)
(* template with the contents it had, and an applyBrow call that follows   *)
(* an applyBrow call with the same source image, landmarks, template,      *)
(* color, amount and offsetY leaves an equal destination.  (The landmark   *)
(* set is passed by const reference and is not written.)                   *)
(***************************************************************************)
C9_FrameAsStated ==
    [][op' \in EntryPoints =>
          /\ SameMat(mask', mask)
          /\ (/\ op = "applyBrow" /\ op' = "applyBrow"
              /\ pc = "done" /\ pc' = "done"
              /\ src' = src /\ points' = points /\ color' = color
              /\ amount' = amount /\ offsetY' = offsetY)
                => SameMat(dst', dst)]_vars

(***************************************************************************)
(* Specification of applyBrow's erase step (lines 345-410): the two turns  *)
(* of the loop, right brow first, on the destination alone.  The blend of  *)
(* the brow overlay that follows each turn is left to SpecApply.           *)
(***************************************************************************)
\* an image of 24 rows: skin, the two brows over rows 9 .. 12, a lighter
\* pixel left of each brow row, and a patch of marked pixels 8 up and 8 left
\* of each brow, every one of its own color
BrowImage(cols, skinAlpha, hairAlpha) ==
    LET hair  == (9 .. 12) \X ((9 .. 13) \cup (35 .. 39))
        edge  == (9 .. 12) \X {8, 34}
        marks == (1 .. 4) \X ((1 .. 5) \cup (27 .. 31))
    IN  Mat(24, cols, CV_8UC4, <<200, 160, 140, skinAlpha>>,
            [p \in {q \in hair \cup edge \cup marks : q[2] < cols} |->
                IF p \in hair THEN <<40, 30, 20, hairAlpha>>
                ELSE IF p \in edge THEN <<210, 170, 150, 128>>
                ELSE <<10 + p[1], 20 + p[2], 30, 255>>])

BrowImages ==
    {BrowImage(cols, sa, ha) : cols \in {50, 40}, sa \in {255, 128},
                               ha \in {255, 64, 0}}

\* a face whose brows are quadrilaterals within x 9 .. 13 and x 35 .. 39
BrowFace(a, b) ==
    [i \in Used |->
        Scale(CASE i = 22 -> Pt(9, 10 + a)   [] i = 23 -> Pt(11, 9)
                [] i = 24 -> Pt(13 - b, 10)  [] i = 25 -> Pt(12, 12)
                [] i = 29 -> Pt(39, 10 + a)  [] i = 30 -> Pt(37, 9)
                [] i = 31 -> Pt(35 + b, 10)  [] i = 26 -> Pt(36, 12)
                [] i = 56 -> Pt(24, 22)
                [] OTHER -> Pt(24, 14), Unit)]

BrowFaces == {BrowFace(a, b) : a \in {0, 1}, b \in {0, 1}}

\* after src.copyTo(dst) (line 327): result is the destination being worked on
InitBrowErase ==
    /\ pc = "ready"
    /\ USE_BGRA_LAYOUT = FALSE
    /\ dst \in BrowImages
    /\ result = dst
    /\ points \in {[size |-> COUNT, at |-> f] : f \in BrowFaces}
    /\ polygon = NoPolygon
    /\ mask = None /\ color = None /\ bitmap = None
    /\ src = None /\ origin = None /\ amount = None /\ shape = None
    /\ image = None /\ touched = None /\ op = None
    /\ cosmetic = None /\ offsetY = None /\ blends = None

\* one turn of the loop of line 345 up to line 410
DoBrowErase(right) ==
    /\ pc = "ready"
    /\ polygon[right] = <<>>
    /\ right \/ polygon[TRUE] # <<>>
    /\ LET poly == BrowPolygon(points.at, right)
       IN  IF ~Within(Inset(BoundingRect(poly), -BrowOffset), result)
           THEN pc' = "aborted" /\ UNCHANGED <<result, polygon>>
           ELSE /\ result' = BrowErase(result, poly)
                /\ polygon' = [polygon EXCEPT ![right] = poly]
                /\ pc' = IF right THEN "ready" ELSE "done"
    /\ op' = "browErase"
    /\ UNCHANGED <<inputs, image, touched, bitmap, blends>>

NextBrowErase == \E right \in BOOLEAN : DoBrowErase(right)

SpecBrowErase == InitBrowErase /\ [][NextBrowErase]_vars

\* the erase mask's value at the destination pixel p of the rectangle
EraseMask(poly, p) ==
    LET rect == BoundingRect(poly)
    IN  At(CreateMask(poly), p[1] - rect.y, p[2] - rect.x)[1]

\* what C13 says of a copy-back from before to after under poly
CopyBackFrame(before, after, poly) ==
    /\ after.rows = before.rows /\ after.cols = before.cols
    /\ after.type = before.type
    /\ \A p \in Coords(before) :
          LET old == At(before, p[1], p[2])
              new == At(after, p[1], p[2])
          IN  /\ new[4] = old[4]
              /\ p \notin RectCoords(BoundingRect(poly)) => new = old
              /\ (p \in RectCoords(BoundingRect(poly)) /\ EraseMask(poly, p) = 0)
                     => new = old

(***************************************************************************)
(* C13: in applyBrow's copy-back step, for each side, the alpha channel of *)
(* every destination pixel is unchanged, every destination pixel whose     *)
(* erase-mask value is 0 is unchanged in all channels, and no destination  *)
(* pixel outside the brow polygon's bounding rectangle is written.         *)
(***************************************************************************)
C13_CopyBackFrame ==
    [][\A right \in BOOLEAN :
          (op' = "browErase" /\ polygon[right] = <<>> /\ polygon'[right] # <<>>)
              => CopyBackFrame(result, result', polygon'[right])]_vars

\* the right turn is over on an image whose brow pixels have alpha 64: a
\* pixel under the mask changed color and kept its alpha, a pixel of the
\* rectangle with mask 0 kept everything
C13_Witness ==
    /\ op = "browErase" /\ polygon[TRUE] # <<>> /\ polygon[FALSE] = <<>>
    /\ CopyBackFrame(dst, result, polygon[TRUE])
    /\ \E p \in RectCoords(BoundingRect(polygon[TRUE])) :
          /\ EraseMask(polygon[TRUE], p) # 0
          /\ At(dst, p[1], p[2])[4] = 64
          /\ At(result, p[1], p[2])[4] = 64
          /\ SubSeq(At(result, p[1], p[2]), 1, 3) # SubSeq(At(dst, p[1], p[2]), 1, 3)
    /\ \E p \in RectCoords(BoundingRect(polygon[TRUE])) :
          /\ EraseMask(polygon[TRUE], p) = 0
          /\ At(dst, p[1], p[2]) = <<40, 30, 20, 64>>
          /\ At(result, p[1], p[2]) = <<40, 30, 20, 64>>

(***************************************************************************)
(* C14 as stated: in applyBrow's copy-back step the inpainted pixel mixed  *)
(* into destination pixel (rect.x + c, rect.y + r) is the pixel            *)
(* (c + 8, r + 8) of the inpainted patch, the one cropped from the same    *)
(* image position, at the offset used to read the erase mask.              *)
(***************************************************************************)
C14_PairingAsStated ==
    [][\A right \in BOOLEAN :
          (op' = "browErase" /\ polygon[right] = <<>> /\ polygon'[right] # <<>>)
              => LET poly  == polygon'[right]
                     rect  == BoundingRect(poly)
                     patch == BrowPatch(result, poly)
                 IN  \A p \in RectCoords(rect) :
                        LET r == p[1] - rect.y
                            c == p[2] - rect.x
                            a == EraseMask(poly, p)
                            old == At(result, p[1], p[2])
                            new == At(result', p[1], p[2])
                            src_color == At(patch, r + BrowOffset, c + BrowOffset)
                        IN  a # 0 => \A k \in 1 .. 3 :
                                        new[k] = Lerp(old[k], src_color[k], a)]_vars

=============================================================================
